---- MODULE Spec2Model ----
(***************************************************************************)
(* Model of ontology_alchemy/base.py: the URI generator                    *)
(* (URISpecification), class declaration through the metaclasses           *)
(* RDFS_ClassMeta / RDF_PropertyMeta, instance construction                *)
(* (RDFS_Class.__init__), triple export (iter_rdf_statements) and          *)
(* domain/range inference (RDF_Property.inferred_domain / inferred_range). *)
(*                                                                         *)
(* Strings are sequences of one-character strings, so that concatenation,  *)
(* splitting and rot-13 are computed as the code computes them.  Python's  *)
(* None is the one-element sequence NoneVal (no string has a character     *)
(* named "None").  Attribute and keyword names are TLA+ strings: the code  *)
(* only compares them.                                                     *)
(***************************************************************************)
EXTENDS Integers, Sequences

(* ------------------------------ bounds -------------------------------- *)
\* readings of the millisecond clock are 0..MaxClock
MaxClock == 1
\* calls of RDFS_Class.__init__ in one run
MaxInstances == 2
\* keyword arguments in one constructor call
MaxKw == 2
\* values in the type container of one instance
MaxTypes == 2
\* classes declared after the two base classes of the library
MaxDecl == 3
\* values appended to one class-level domain or range container
MaxVals == 1

VARIABLES
    now,               \* the reading time.time() * 1000 gives at this moment
    uspec,             \* the URISpecification objects: id -> attributes
    classes,           \* the class objects, in creation order
    session_classes,   \* Session.get_current().classes: ids of class objects
    session_instances, \* Session.get_current().instances: instance objects
    nextId,            \* identity of the next instance object allocated
    hist,              \* every constructor call so far, with its outcome
    last               \* the last call made and what it returned or raised

vars == <<now, uspec, classes, session_classes, session_instances, nextId,
          hist, last>>

(* ------------------------------ strings ------------------------------- *)
NoneVal == <<"None">>

Lower == <<"a","b","c","d","e","f","g","h","i","j","k","l","m",
           "n","o","p","q","r","s","t","u","v","w","x","y","z">>
Upper == <<"A","B","C","D","E","F","G","H","I","J","K","L","M",
           "N","O","P","Q","R","S","T","U","V","W","X","Y","Z">>
DigitChars == <<"0","1","2","3","4","5","6","7","8","9">>

IndexIn(c, alphabet) ==
    CHOOSE i \in 1..Len(alphabet) : alphabet[i] = c

\* codecs.encode(s, "rot-13"), one character
Rot13Char(c) ==
    IF \E i \in 1..26 : Lower[i] = c
    THEN Lower[((IndexIn(c, Lower) - 1 + 13) % 26) + 1]
    ELSE IF \E i \in 1..26 : Upper[i] = c
    THEN Upper[((IndexIn(c, Upper) - 1 + 13) % 26) + 1]
    ELSE c

\* codecs.encode(s, "rot-13")
Rot13(s) == [i \in 1..Len(s) |-> Rot13Char(s[i])]

\* str(n) for a non-negative integer
RECURSIVE IntToStr(_)
IntToStr(n) ==
    IF n < 10 THEN <<DigitChars[n + 1]>>
    ELSE IntToStr(n \div 10) \o <<DigitChars[(n % 10) + 1]>>

\* the characters re.split("\|/|#", uri) splits on
Separators == {"|", "/", "#"}

\* strip_from_uri: the last piece of the split
strip_from_uri(uri) ==
    LET cuts == {i \in 1..Len(uri) : uri[i] \in Separators}
        lastCut == IF cuts = {} THEN 0
                   ELSE CHOOSE i \in cuts : \A j \in cuts : j <= i
    IN  SubSeq(uri, lastCut + 1, Len(uri))

(* ------------------------- URISpecification --------------------------- *)
\* the constructor arguments of the URISpecification objects of a run:
\* object 1 has a label in its dictionary, object 2 has none
BaseUri == <<"b", ":", "/">>
USpecArgs ==
    <<[base_uri |-> BaseUri, hasLabel |-> TRUE,  label |-> <<"R", "e", "x">>],
      [base_uri |-> BaseUri, hasLabel |-> FALSE, label |-> <<>>]>>
USpecIds == 1..Len(USpecArgs)

\* URISpecification.__init__: base_uri and dict1 are stored, the attributes
\* getURI assigns do not exist yet
URISpecification(args) ==
    [base_uri |-> args.base_uri, hasLabel |-> args.hasLabel,
     label |-> args.label,
     assigned |-> {}, component_type |-> <<>>, encodedstring |-> <<>>,
     unicity |-> 0]

\* URISpecification.getURI(fullType) at clock reading t.  Returns the raised
\* error ("none" when it returns), the returned string and the object after
\* the call: the assignments made before a raise stay.
getURI(u, fullType, t) ==
    IF fullType = NoneVal
    THEN \* re.split on None raises TypeError before any assignment
         [err |-> "TypeError", uri |-> <<>>, obj |-> u]
    ELSE
    LET u1 == [u EXCEPT !.component_type = strip_from_uri(fullType),
                        !.assigned = @ \cup {"component_type"}]
    IN  IF ~u.hasLabel
        THEN \* self.dict1["label"] raises KeyError
             [err |-> "KeyError", uri |-> <<>>, obj |-> u1]
        ELSE
        LET u2 == [u1 EXCEPT !.encodedstring = Rot13(u.label),
                             !.unicity = t,
                             !.assigned = @ \cup {"encodedstring", "unicity"}]
        IN  [err |-> "none",
             uri |-> u2.base_uri \o u2.component_type \o <<"/">>
                     \o u2.encodedstring \o <<"-">> \o IntToStr(u2.unicity),
             obj |-> u2]

(* ------------------------------ classes ------------------------------- *)
\* A class object: its name, its bases (ids, in the order of the class
\* statement), the two attributes RDFS_ClassMeta.__new__ guarantees
\* (__uri__, __properties__) and, for a property class, the values of the
\* class-level domain and range containers RDF_PropertyMeta.__init__ creates.
\* An entry 0 of properties is an object that is no property class.

\* RDFS_ClassMeta.__new__: dct.setdefault("__properties__", []) and
\* dct.setdefault("__uri__", None); dct is the class body, dct.keys the names
\* it defines.  A class never takes the two attributes from its bases.
RDFS_ClassMeta_new(name, bases, dct, isProperty) ==
    [name |-> name, bases |-> bases,
     uri |-> IF "__uri__" \in dct.keys THEN dct.uri ELSE NoneVal,
     properties |-> IF "__properties__" \in dct.keys THEN dct.properties
                    ELSE <<>>,
     isProperty |-> isProperty, domain |-> <<>>, range |-> <<>>]

\* Session.register_class
register_class(sess, c) == Append(sess, c)

\* Session.register_instance
register_instance(sess, inst) == Append(sess, inst)

\* the library after import: RDFS_Class (id 1) and RDF_Property (id 2), both
\* created through their metaclasses and registered
RDFS_Class == 1
RDF_Property == 2
BaseClasses ==
    <<RDFS_ClassMeta_new("RDFS_Class", <<>>, [keys |-> {}], FALSE),
      RDFS_ClassMeta_new("RDF_Property", <<RDFS_Class>>, [keys |-> {}], TRUE)>>

\* the ontology of the construction runs, declared through the metaclasses:
\* property classes name and breed, class Animal with property name, class
\* Dog(Animal) with property breed
UriAnimal == <<"o", "#", "A">>
UriDog == <<"o", "/", "D">>
UriName == <<"o", "#", "n">>
UriBreed == <<"o", "#", "b">>
PName == Len(BaseClasses) + 1
PBreed == Len(BaseClasses) + 2
Animal == Len(BaseClasses) + 3
Dog == Len(BaseClasses) + 4
OntologyClasses ==
    BaseClasses \o
    <<RDFS_ClassMeta_new("name", <<RDF_Property>>,
          [keys |-> {"__uri__"}, uri |-> UriName], TRUE),
      RDFS_ClassMeta_new("breed", <<RDF_Property>>,
          [keys |-> {"__uri__"}, uri |-> UriBreed], TRUE),
      RDFS_ClassMeta_new("Animal", <<RDFS_Class>>,
          [keys |-> {"__uri__", "__properties__"}, uri |-> UriAnimal,
           properties |-> <<PName>>], FALSE),
      RDFS_ClassMeta_new("Dog", <<Animal>>,
          [keys |-> {"__uri__", "__properties__"}, uri |-> UriDog,
           properties |-> <<PBreed>>], FALSE)>>

(* ----------------------------- instances ------------------------------ *)
\* the containers RDFS_Class.__init__ creates on every instance, in the order
\* of the assignments (self.uriHandle, no container, comes before type)
UniversalNames ==
    <<"label", "prefLabel", "comment", "seeAlso", "isDefinedBy", "value",
      "type">>

\* the identifiers of the universal properties (RDFS.label, ..., RDF.type)
\* and of a declared property (its class's __uri__)
PredicateOf(cls, name) ==
    IF \E i \in 1..Len(UniversalNames) : UniversalNames[i] = name
    THEN <<"r", ":">> \o <<name>>
    ELSE LET ps == {i \in 1..Len(cls) : cls[i].name = name /\ cls[i].isProperty}
         IN  IF ps = {} THEN NoneVal ELSE cls[CHOOSE i \in ps : TRUE].uri

Range(s) == {s[i] : i \in 1..Len(s)}

\* the names setattr(self, property_class.__name__, ...) adds to the
\* instance's __dict__ for the entries of props: a name already there keeps
\* its place, and the loop ends at an entry that has no __name__
RECURSIVE AddNames(_, _, _)
AddNames(order, props, cls) ==
    IF props = <<>> \/ Head(props) = 0 THEN order
    ELSE LET n == cls[Head(props)].name
         IN  AddNames(IF n \in Range(order) THEN order ELSE Append(order, n),
                      Tail(props), cls)

\* the methods an instance of class c has (a property class adds its own)
MethodNames(cls, c) ==
    {"addType", "iter_rdf_statements", "getInstanceUri"} \cup
    (IF cls[c].isProperty THEN {"inferred_domain", "inferred_range"} ELSE {})

\* lines 94-105: the instance as it is before the URI is generated
NewInstance(id, c, handle, cls) ==
    LET order == AddNames(UniversalNames, cls[c].properties, cls)
    IN  [id |-> id, cls |-> c, uriHandle |-> handle,
         hasUri |-> FALSE, uri |-> <<>>,
         order |-> order,
         vals |-> [n \in Range(order) |-> <<>>]]

\* PropertyProxy.__iadd__ on the container name of inst
AppendValue(inst, name, v) ==
    [inst EXCEPT !.vals[name] = Append(@, v)]

\* an exception leaves __init__ from the step named by at
Raise(fr, err, at) == [fr EXCEPT !.err = err, !.at = at]

\* ImposeURI with the test of a setdefault: a URI already generated stays
ImposeURI_KeepGenerated(inst, v) ==
    IF inst.hasUri THEN inst ELSE [inst EXCEPT !.hasUri = TRUE, !.uri = v]

\* line 112-113: self.uri = v
ImposeURI(inst, v) ==
    [inst EXCEPT !.hasUri = TRUE, !.uri = v]

\* One pass of the loop of lines 111-116 on the frame fr (the instance under
\* construction, the class objects, the error raised so far).
\* getattr(self, k) finds, in this order of cases: a container of the
\* instance; for an instance of a property class the class-level containers
\* domain and range; uriHandle (None or a URISpecification) and the methods,
\* on which += raises TypeError; the strings __module__ and (unless None)
\* __uri__, on which += builds a new string that is dropped; the list
\* __properties__ of the class, which += extends in place by the characters
\* of v; and nothing else, which raises AttributeError.  uri is never a
\* keyword here: Python binds it to the parameter uri.
ApplyKwarg(fr, kv) ==
    LET inst == fr.inst
        c == inst.cls
    IN  IF fr.err # "none" THEN fr
        ELSE IF kv.k = "imposeURI"
        THEN [fr EXCEPT !.inst = ImposeURI(inst, kv.v)]
        ELSE IF kv.k \in DOMAIN inst.vals
        THEN [fr EXCEPT !.inst = AppendValue(inst, kv.k, kv.v)]
        ELSE IF kv.k = "domain" /\ fr.classes[c].isProperty
        THEN [fr EXCEPT !.classes[c].domain = Append(@, kv.v)]
        ELSE IF kv.k = "range" /\ fr.classes[c].isProperty
        THEN [fr EXCEPT !.classes[c].range = Append(@, kv.v)]
        ELSE IF kv.k = "uriHandle" \/ kv.k \in MethodNames(fr.classes, c)
        THEN Raise(fr, "TypeError", "kwargs")
        ELSE IF kv.k = "__module__" THEN fr
        ELSE IF kv.k = "__uri__"
        THEN IF fr.classes[c].uri = NoneVal
             THEN Raise(fr, "TypeError", "kwargs") ELSE fr
        ELSE IF kv.k = "__properties__"
        THEN [fr EXCEPT !.classes[c].properties =
                            @ \o [i \in 1..Len(kv.v) |-> 0]]
        ELSE Raise(fr, "AttributeError", "kwargs")

\* lines 111-116: the loop over kwargs.items(), in the order of the call
RECURSIVE ApplyKwargs(_, _)
ApplyKwargs(fr, kwargs) ==
    IF kwargs = <<>> THEN fr
    ELSE ApplyKwargs(ApplyKwarg(fr, Head(kwargs)), Tail(kwargs))

\* GenerateStep with the generator skipped when imposeURI is among the
\* keywords
GenerateStep_Bypass(fr, kwargs, t) ==
    LET h == fr.inst.uriHandle
        skip == \E i \in 1..Len(kwargs) : kwargs[i].k = "imposeURI"
    IN  IF fr.err # "none" \/ h = 0 \/ skip THEN fr
        ELSE LET r == getURI(fr.uspec[h], fr.classes[fr.inst.cls].uri, t)
             IN  [fr EXCEPT !.uspec[h] = r.obj,
                            !.genCalls = @ + 1,
                            !.err = r.err,
                            !.at = IF r.err = "none" THEN @ ELSE "uri",
                            !.inst = IF r.err = "none"
                                     THEN [@ EXCEPT !.hasUri = TRUE,
                                                    !.uri = r.uri]
                                     ELSE @]

\* lines 107-109: with a URISpecification given, its getURI is called with
\* the class's __uri__ and its result assigned to self.uri
GenerateStep(fr, kwargs, t) ==
    LET h == fr.inst.uriHandle
    IN  IF fr.err # "none" \/ h = 0 THEN fr
        ELSE LET r == getURI(fr.uspec[h], fr.classes[fr.inst.cls].uri, t)
             IN  [fr EXCEPT !.uspec[h] = r.obj,
                            !.genCalls = @ + 1,
                            !.err = r.err,
                            !.at = IF r.err = "none" THEN @ ELSE "uri",
                            !.inst = IF r.err = "none"
                                     THEN [@ EXCEPT !.hasUri = TRUE,
                                                    !.uri = r.uri]
                                     ELSE @]

\* addType(uri), lines 123-126: the type container gets uri
addType(inst, uri) == AppendValue(inst, "type", uri)

\* line 119: self.addType(self.__class__.__uri__)
TypeStep(fr) ==
    IF fr.err # "none" THEN fr
    ELSE [fr EXCEPT !.inst = addType(@, fr.classes[fr.inst.cls].uri)]

\* RDFS_Class.__init__(self, uri=handle, **kwargs) on a fresh object id of
\* class c at clock reading t (handle 0 is None).  The frame it returns holds
\* the error raised ("none": it returned) and the step that raised it (the
\* loop over __properties__, the URI, the loop over kwargs), the instance
\* as far as it got, the number of getURI calls made, and the
\* URISpecification and class objects as the call left them.
RDFS_Class_init(id, c, handle, kwargs, t, us, cls) ==
    LET bad == 0 \in Range(cls[c].properties)
        fr0 == [err |-> IF bad THEN "AttributeError" ELSE "none",
                at |-> IF bad THEN "properties" ELSE "none",
                inst |-> NewInstance(id, c, handle, cls),
                uspec |-> us, classes |-> cls, genCalls |-> 0]
    IN  TypeStep(ApplyKwargs(GenerateStep(fr0, kwargs, t), kwargs))

\* RDF_Property.__init__, lines 152-153: the call is passed on unchanged
RDF_Property_init(id, c, handle, kwargs, t, us, cls) ==
    RDFS_Class_init(id, c, handle, kwargs, t, us, cls)

\* RegisterStep with the registration moved ahead of the statements that
\* can raise
RegisterStep_First(fr, sess) == register_instance(sess, fr.inst)

\* line 121: the last statement of __init__ registers the instance; it is
\* reached only when nothing raised before
RegisterStep(fr, sess) ==
    IF fr.err = "none" THEN register_instance(sess, fr.inst) ELSE sess

\* RDFS_Class.iter_rdf_statements, lines 134-139, consumed to the end: the
\* triples in the order of the containers in __dict__.  self.uri is read
\* when the first triple is built, and raises AttributeError on an instance
\* that never got one.
RECURSIVE StatementsOf(_, _, _)
StatementsOf(inst, names, cls) ==
    IF names = <<>> THEN <<>>
    ELSE LET n == Head(names)
         IN  [i \in 1..Len(inst.vals[n]) |->
                 <<inst.uri, PredicateOf(cls, n), inst.vals[n][i]>>]
             \o StatementsOf(inst, Tail(names), cls)

iter_rdf_statements(inst, cls) ==
    LET all == StatementsOf(inst, inst.order, cls)
    IN  IF all # <<>> /\ ~inst.hasUri
        THEN [err |-> "AttributeError", out |-> <<>>]
        ELSE [err |-> "none", out |-> all]

\* RDFS_Class.getInstanceUri, lines 141-142
getInstanceUri(inst) ==
    IF inst.hasUri THEN [err |-> "none", out |-> inst.uri]
    ELSE [err |-> "AttributeError", out |-> NoneVal]

(* ----------------------- construction runs ---------------------------- *)
\* the inputs of the constructor calls of a run
ImposedUri == <<"u", ":", "1">>
KwValue == <<"R", "e", "x">>
KwNames ==
    {"imposeURI", "label", "name", "breed", "addType", "__module__",
     "bogus"}
KwPair(n) == [k |-> n, v |-> IF n = "imposeURI" THEN ImposedUri ELSE KwValue]

\* the keyword arguments of one call over the names given: at most MaxKw
\* pairs, no name twice
KwargsOver(names) ==
    {kw \in UNION {[1..n -> {KwPair(x) : x \in names}] : n \in 0..MaxKw} :
        \A i, j \in 1..Len(kw) : i # j => kw[i].k # kw[j].k}
KwargsChoices == KwargsOver(KwNames)

\* the classes instantiated: the base class, an ontology class with a
\* superclass and a property class
InstantiatedClasses == {RDFS_Class, Dog, PName}

\* the values addType is called with after construction
TypeChoices == {UriAnimal}

KwNamesOf(kwargs) == {kwargs[i].k : i \in 1..Len(kwargs)}

\* the classes c derives from, c included
RECURSIVE Ancestors(_, _)
Ancestors(cls, c) ==
    {c} \cup UNION {Ancestors(cls, cls[c].bases[i]) :
                        i \in 1..Len(cls[c].bases)}

\* the names of the properties declared on c or on a class c derives from
EffectiveNames(cls, c) ==
    {cls[p].name : p \in UNION {Range(cls[a].properties) \ {0} :
                                    a \in Ancestors(cls, c)}}

\* the names a constructor call of class c may pass: the effective and the
\* universal properties and the override key
KnownNames(cls, c) ==
    EffectiveNames(cls, c) \cup Range(UniversalNames) \cup {"imposeURI"}

\* what is kept of a call: the operation, the object, the class, the
\* URISpecification passed (0: none), whether imposeURI was passed, whether a
\* keyword outside KnownNames was passed, the error raised and the step that
\* raised it, the number of getURI calls made and the value returned (the
\* triples of iter_rdf_statements, the string of getInstanceUri, the list of
\* inferred_domain or inferred_range)
NoCall ==
    [op |-> "none", id |-> 0, cls |-> 0, handle |-> 0, imposed |-> FALSE,
     unknownKw |-> FALSE, err |-> "none", at |-> "none", genCalls |-> 0,
     triples |-> <<>>, uri |-> NoneVal, values |-> <<>>]

\* the value passed as imposeURI, None when the key is absent
ImposeArg(kwargs) ==
    LET at == {i \in 1..Len(kwargs) : kwargs[i].k = "imposeURI"}
    IN  IF at = {} THEN NoneVal ELSE kwargs[CHOOSE i \in at : TRUE].v

Init ==
    /\ now = 0
    /\ uspec = [u \in USpecIds |-> URISpecification(USpecArgs[u])]
    /\ classes = OntologyClasses
    /\ session_classes = [i \in 1..Len(OntologyClasses) |-> i]
    /\ session_instances = <<>>
    /\ nextId = 1
    /\ hist = <<>>
    /\ last = NoCall

\* the millisecond clock advances
Tick ==
    /\ now < MaxClock
    /\ now' = now + 1
    /\ UNCHANGED <<uspec, classes, session_classes, session_instances,
                   nextId, hist, last>>

\* a call c(uri=handle, **kwargs) of a class: the object is allocated, then
\* __init__ runs to its return or to the first error
Construct(c, handle, kwargs) ==
    /\ nextId <= MaxInstances
    /\ LET fr == IF classes[c].isProperty
                 THEN RDF_Property_init(nextId, c, handle, kwargs, now,
                                        uspec, classes)
                 ELSE RDFS_Class_init(nextId, c, handle, kwargs, now,
                                      uspec, classes)
       IN  /\ uspec' = fr.uspec
           /\ classes' = fr.classes
           /\ session_instances' = RegisterStep(fr, session_instances)
           /\ hist' = Append(hist, [id |-> nextId, cls |-> c,
                                     handle |-> handle,
                                     impose |-> ImposeArg(kwargs),
                                     err |-> fr.err])
           /\ last' = [op |-> "init", id |-> nextId, cls |-> c,
                       handle |-> handle,
                       imposed |-> "imposeURI" \in KwNamesOf(kwargs),
                       unknownKw |-> KwNamesOf(kwargs) \ KnownNames(classes, c)
                                     # {},
                       err |-> fr.err, at |-> fr.at,
                       genCalls |-> fr.genCalls,
                       triples |-> <<>>, uri |-> NoneVal, values |-> <<>>]
    /\ nextId' = nextId + 1
    /\ UNCHANGED <<now, session_classes>>

\* instance.addType(uri) on a live instance
AddType(i, uri) ==
    /\ Len(session_instances[i].vals["type"]) < MaxTypes
    /\ session_instances' =
           [session_instances EXCEPT ![i] = addType(@, uri)]
    /\ last' = [NoCall EXCEPT !.op = "addType",
                              !.id = session_instances[i].id]
    /\ UNCHANGED <<now, uspec, classes, session_classes, nextId, hist>>

\* list(instance.iter_rdf_statements()) on a live instance
IterStatements(i) ==
    /\ LET r == iter_rdf_statements(session_instances[i], classes)
       IN  last' = [NoCall EXCEPT !.op = "iter",
                                  !.id = session_instances[i].id,
                                  !.err = r.err, !.triples = r.out]
    /\ UNCHANGED <<now, uspec, classes, session_classes, session_instances,
                   nextId, hist>>

\* instance.getInstanceUri() on a live instance
GetInstanceUri(i) ==
    /\ LET r == getInstanceUri(session_instances[i])
       IN  last' = [NoCall EXCEPT !.op = "getInstanceUri",
                                  !.id = session_instances[i].id,
                                  !.err = r.err, !.uri = r.out]
    /\ UNCHANGED <<now, uspec, classes, session_classes, session_instances,
                   nextId, hist>>

Next ==
    \/ Tick
    \/ \E c \in InstantiatedClasses, h \in {0} \cup USpecIds,
          kw \in KwargsChoices : Construct(c, h, kw)
    \/ \E i \in 1..Len(session_instances), u \in TypeChoices : AddType(i, u)
    \/ \E i \in 1..Len(session_instances) : IterStatements(i)
    \/ \E i \in 1..Len(session_instances) : GetInstanceUri(i)

Spec == Init /\ [][Next]_vars

\* runs of constructor calls alone, with the inputs that decide the
\* identifier and the registration: a URISpecification or none, the override
\* key, a universal property and a name that is no attribute
CoreClasses == {RDFS_Class, Dog}
CoreKwNames == {"imposeURI", "label", "bogus"}

NextConstruct ==
    \/ Tick
    \/ \E c \in CoreClasses, h \in {0} \cup USpecIds,
          kw \in KwargsOver(CoreKwNames) : Construct(c, h, kw)

SpecConstruct == Init /\ [][NextConstruct]_vars

(* ------------------------ declaration runs ---------------------------- *)
\* bool(proxy) of a class-level container holding values
ProxyTruth(values) == Len(values) > 0

\* RDF_Property.inferred_domain, lines 162-175: the class's own domain
\* values, then those of every base that has a domain attribute which is
\* true, in the order of __bases__
RECURSIVE inferred_domain(_, _)
RECURSIVE DomainOfBases(_, _)
DomainOfBases(cls, bases) ==
    IF bases = <<>> THEN <<>>
    ELSE LET b == Head(bases)
         IN  (IF cls[b].isProperty /\ ProxyTruth(cls[b].domain)
              THEN inferred_domain(cls, b) ELSE <<>>)
             \o DomainOfBases(cls, Tail(bases))
inferred_domain(cls, p) == cls[p].domain \o DomainOfBases(cls, cls[p].bases)

\* RDF_Property.inferred_range, lines 177-190
RECURSIVE inferred_range(_, _)
RECURSIVE RangeOfBases(_, _)
RangeOfBases(cls, bases) ==
    IF bases = <<>> THEN <<>>
    ELSE LET b == Head(bases)
         IN  (IF cls[b].isProperty /\ ProxyTruth(cls[b].range)
              THEN inferred_range(cls, b) ELSE <<>>)
             \o RangeOfBases(cls, Tail(bases))
inferred_range(cls, p) == cls[p].range \o RangeOfBases(cls, cls[p].bases)

\* the inputs of the declarations of a run
DeclNames == {"P", "Q"}
DomainChoices == {UriAnimal}
RangeChoices == {UriDog}

\* the bases of a class statement: one or two classes that exist, the later
\* one first (an order Python's linearisation accepts)
BasesChoices(cls) ==
    {<<b>> : b \in 1..Len(cls)} \cup
    {bb \in (1..Len(cls)) \X (1..Len(cls)) : bb[1] > bb[2]}

\* a class statement takes the metaclass of its bases: RDF_PropertyMeta when
\* one of them is a property class
IsPropertyClass(cls, bases) ==
    \E i \in 1..Len(bases) : cls[bases[i]].isProperty

InitDecl ==
    /\ now = 0
    /\ uspec = [u \in USpecIds |-> URISpecification(USpecArgs[u])]
    /\ classes = BaseClasses
    /\ session_classes = [i \in 1..Len(BaseClasses) |-> i]
    /\ session_instances = <<>>
    /\ nextId = 1
    /\ hist = <<>>
    /\ last = NoCall

\* a class statement "class name(bases): __uri__ = ...": RDFS_ClassMeta.__new__
\* builds the class, RDFS_ClassMeta.__init__ (for a property class through
\* RDF_PropertyMeta.__init__, which adds empty domain and range) registers it
\* with the current Session.  Nothing compares name with earlier ones.
DeclareClass(name, bases) ==
    /\ Len(classes) < Len(BaseClasses) + MaxDecl
    /\ classes' = Append(classes,
           RDFS_ClassMeta_new(name, bases,
               [keys |-> {"__uri__"}, uri |-> <<"o", "#">> \o <<name>>],
               IsPropertyClass(classes, bases)))
    /\ session_classes' = register_class(session_classes, Len(classes) + 1)
    /\ last' = [NoCall EXCEPT !.op = "declare"]
    /\ UNCHANGED <<now, uspec, session_instances, nextId, hist>>

\* p.domain += v on a property class
AddDomain(p, v) ==
    /\ classes[p].isProperty
    /\ Len(classes[p].domain) < MaxVals
    /\ classes' = [classes EXCEPT ![p].domain = Append(@, v)]
    /\ last' = [NoCall EXCEPT !.op = "append"]
    /\ UNCHANGED <<now, uspec, session_classes, session_instances, nextId,
                   hist>>

\* p.range += v on a property class
AddRange(p, v) ==
    /\ classes[p].isProperty
    /\ Len(classes[p].range) < MaxVals
    /\ classes' = [classes EXCEPT ![p].range = Append(@, v)]
    /\ last' = [NoCall EXCEPT !.op = "append"]
    /\ UNCHANGED <<now, uspec, session_classes, session_instances, nextId,
                   hist>>

\* p.inferred_domain()
InferDomain(p) ==
    /\ classes[p].isProperty
    /\ last' = [NoCall EXCEPT !.op = "inferred_domain", !.cls = p,
                              !.values = inferred_domain(classes, p)]
    /\ UNCHANGED <<now, uspec, classes, session_classes, session_instances,
                   nextId, hist>>

\* p.inferred_range()
InferRange(p) ==
    /\ classes[p].isProperty
    /\ last' = [NoCall EXCEPT !.op = "inferred_range", !.cls = p,
                              !.values = inferred_range(classes, p)]
    /\ UNCHANGED <<now, uspec, classes, session_classes, session_instances,
                   nextId, hist>>

\* runs that declare classes of both kinds under a few names
NextDecl ==
    \E n \in DeclNames, b \in BasesChoices(classes) : DeclareClass(n, b)

SpecDecl == InitDecl /\ [][NextDecl]_vars

\* runs that build a hierarchy of property classes, give them domains and
\* ranges and ask for the inferred ones
PropertyName == "p"
PropertyBases(cls) ==
    {b \in BasesChoices(cls) : \A i \in 1..Len(b) : cls[b[i]].isProperty}
Declared(cls) == (Len(BaseClasses) + 1)..Len(cls)

NextInfer ==
    \/ \E b \in PropertyBases(classes) : DeclareClass(PropertyName, b)
    \/ \E p \in Declared(classes), v \in DomainChoices : AddDomain(p, v)
    \/ \E p \in Declared(classes), v \in RangeChoices : AddRange(p, v)
    \/ \E p \in Declared(classes) : InferDomain(p)
    \/ \E p \in Declared(classes) : InferRange(p)

SpecInfer == InitDecl /\ [][NextInfer]_vars

(* ------------------------------ claims -------------------------------- *)
Live == 1..Len(session_instances)
CallOf(inst) == hist[inst.id]

\* C1: every instance whose construction completed has an identifier,
\* whatever the constructor arguments were.
C1_EveryInstanceHasUri ==
    \A i \in Live : session_instances[i].hasUri

\* C2: two instances constructed through getURI with the same base URI, the
\* same class identifier and the same label have distinct identifiers, also
\* when the clock reading did not advance between the two calls.
C2_GeneratedUrisDistinct ==
    \A i, j \in Live :
        LET a == session_instances[i]
            b == session_instances[j]
        IN  (/\ i # j
             /\ CallOf(a).handle # 0 /\ CallOf(b).handle # 0
             /\ CallOf(a).impose = NoneVal /\ CallOf(b).impose = NoneVal
             /\ a.cls = b.cls
             /\ USpecArgs[CallOf(a).handle] = USpecArgs[CallOf(b).handle])
            => a.uri # b.uri

\* C3: an instance constructed with imposeURI has exactly the supplied value
\* as its identifier, with or without a URISpecification and whatever other
\* keywords came with it, and keeps it.
C3_ImposedUriIsExact ==
    \A i \in Live :
        LET a == session_instances[i]
        IN  CallOf(a).impose # NoneVal
            => a.hasUri /\ a.uri = CallOf(a).impose

C3_Witness ==
    \E i \in Live :
        LET a == session_instances[i]
        IN  /\ CallOf(a).impose # NoneVal
            /\ CallOf(a).handle # 0
            /\ a.vals["label"] # <<>>
            /\ last.op = "init" /\ last.id = a.id /\ last.genCalls = 1

\* C4: a constructor call that passes a keyword which is neither an
\* effective nor a universal property (nor imposeURI) fails with
\* UnknownPropertyError.
C4_UnknownKeywordRejected ==
    (last.op = "init" /\ last.unknownKw)
        => last.err = "UnknownPropertyError"

\* C5: an instance has a container for every property declared on its class
\* or on a class its class derives from.
C5_InheritedContainers ==
    \A i \in Live :
        EffectiveNames(classes, session_instances[i].cls)
            \subseteq DOMAIN session_instances[i].vals

\* the property classes p derives from, p included
PropertyAncestors(cls, p) == {a \in Ancestors(cls, p) : cls[a].isProperty}

\* C6: inferred_domain() and inferred_range() return, as a set, the union of
\* the restrictions declared on the property class and on every property
\* class it derives from, also through a class whose own restriction is
\* empty.
C6_InferenceIsUnion ==
    /\ last.op = "inferred_domain"
        => Range(last.values) =
           UNION {Range(classes[a].domain) :
                     a \in PropertyAncestors(classes, last.cls)}
    /\ last.op = "inferred_range"
        => Range(last.values) =
           UNION {Range(classes[a].range) :
                     a \in PropertyAncestors(classes, last.cls)}

\* the number of values held in the containers names of inst
RECURSIVE ValueCount(_, _)
ValueCount(inst, names) ==
    IF names = <<>> THEN 0
    ELSE Len(inst.vals[Head(names)]) + ValueCount(inst, Tail(names))

\* C7: iter_rdf_statements on a live instance yields one triple for every
\* value of every container, with the instance's identifier as subject.
C7_OneTriplePerValue ==
    last.op = "iter" =>
        \A i \in Live :
            LET a == session_instances[i]
            IN  a.id = last.id =>
                /\ last.err = "none"
                /\ Len(last.triples) = ValueCount(a, a.order)
                /\ \A k \in 1..Len(last.triples) :
                       last.triples[k][1] = a.uri

\* C8: a name is declared at most once: the Session never lists two classes
\* of the same name.
C8_NoDuplicateNames ==
    \A i, j \in 1..Len(session_classes) :
        i # j => classes[session_classes[i]].name
                 # classes[session_classes[j]].name

Completed == SelectSeq(hist, LAMBDA h : h.err = "none")

\* C10: the Session's instance list holds exactly the instances whose
\* construction completed, once each and in construction order; a call that
\* raised left no entry.
C10_SessionHoldsCompleted ==
    /\ Len(session_instances) = Len(Completed)
    /\ \A i \in Live : session_instances[i].id = Completed[i].id

C10_Witness ==
    /\ Len(hist) = 2
    /\ hist[1].err # "none"
    /\ hist[2].err = "none"
    /\ Len(session_instances) = 1
    /\ session_instances[1].id = 2

====
